---- MODULE Spec2Model ----
(***************************************************************************)
(* LED matrix controller of electronics_storage.py: the pin map built by   *)
(* setup_gpio, the led_states table, set_led, the toggle / set-all / test  *)
(* request handlers of the threaded web server, and the background test    *)
(* sequence started by run_led_test.                                       *)
(*                                                                         *)
(* The code takes no lock anywhere.  A step of the model is one access to  *)
(* shared state (one GPIO.output call, one store into led_states, one read *)
(* of led_states); the interpreter may switch threads between any two of   *)
(* them.  Reads of LED_PINS, which nothing writes after startup, are       *)
(* folded into the step that follows them.                                 *)
(*                                                                         *)
(* The drawer grid is scaled down: NumRows x NumCols drawers, of which the *)
(* last row has no LED (8 x 4 and row 8 in the source).  A drawer id       *)
(* f"{row}-{col}" is the pair <<row, col>>.                                *)
(***************************************************************************)
EXTENDS Integers, Sequences, FiniteSets, TLC

\* ---- bounds ------------------------------------------------------------
\* rows of the cabinet (range(1, 9) in the source); the last one has no LED
NumRows == 3
\* columns of the cabinet (range(1, 5) in the source)
NumCols == 2
\* request-handler threads; each serves one request
NumThreads == 2
\* calls of highlightDrawers the browser makes
MaxSearches == 2

\* ---- program constants -------------------------------------------------
gpio_pins == <<2, 3, 4, 14, 15, 18, 17, 27, 22, 23, 24, 10, 9, 25, 11, 8,
               7, 1, 12, 16, 20, 21, 19, 26, 13, 6, 5, 0>>
LOW == 0
HIGH == 1
\* None, as a pin
None == -1
\* no drawer id: the handler has not read its argument
NoId == <<>>

\* rows that carry LEDs: range(1, 8)
LedRows == NumRows - 1
Threads == 1..NumThreads

\* f"{row}-{col}"
DrawerId(row, col) == <<row, col>>

\* the ids of rows 1..rows, a row at a time, columns 1..NumCols within a row:
\* the order of `for row in range(..): for col in range(1, 5)`
RowMajorByCol(rows) ==
    [k \in 1..(rows * NumCols) |->
        DrawerId(((k - 1) % rows) + 1, ((k - 1) \div rows) + 1)]

RowMajor(rows) ==
    [k \in 1..(rows * NumCols) |->
        DrawerId(((k - 1) \div NumCols) + 1, ((k - 1) % NumCols) + 1)]

SeqToSet(s) == {s[i] : i \in 1..Len(s)}

\* every drawer id of the cabinet
AllIds == SeqToSet(RowMajor(NumRows))

\* ids a client can put in a URL: the drawers and two that are no drawer
BogusIds == {DrawerId(0, 0), DrawerId(NumRows + 1, 1)}
RequestIds == AllIds \cup BogusIds

\* <state> path segments a client can send to /api/led/all/<state>
StateArgs == {"on", "ON", "off", "blink"}
\* str.lower() on those
lower(s) == IF s = "ON" THEN "on" ELSE s

VARIABLES
    LED_PINS,    \* self.LED_PINS: drawer id -> pin or None
    gpio,        \* level of every pin set up as an output
    led_states,  \* self.led_states: drawer id -> bool
    req,         \* the request handler threads
    seq,         \* the test_sequence thread started by each handler
    data_file,   \* content of self.data_file, or NoFile
    drw,         \* the handler threads of the /api/drawers requests
    highlighted, \* browser: the drawers that carry the class 'highlighted'
    pending,     \* browser: toggle requests sent and not yet taken up
    searches     \* browser: the arguments of the highlightDrawers calls so far

vars == <<LED_PINS, gpio, led_states, req, seq, data_file, drw,
          highlighted, pending, searches>>
\* what the LED handlers and the test sequence never touch
store_vars == <<data_file, drw>>
browser_vars == <<highlighted, pending, searches>>

\* ---- setup_gpio --------------------------------------------------------
\* the double loop of setup_gpio over rows 1..7, from the k-th drawer on:
\* m is LED_PINS so far, g the pins set up and driven LOW so far
RECURSIVE setup_loop(_, _, _, _, _)
setup_loop_stuck(k, pin_index, pins, m, g) ==
    IF k > LedRows * NumCols
    THEN [LED_PINS |-> m, gpio |-> g]
    ELSE LET drawer_id == RowMajor(LedRows)[k] IN
         IF pin_index < Len(pins)
         THEN setup_loop(k + 1, pin_index, pins,
                         (drawer_id :> pins[pin_index + 1]) @@ m,
                         (pins[pin_index + 1] :> LOW) @@ g)
         ELSE setup_loop(k + 1, pin_index, pins, m, g)

setup_loop(k, pin_index, pins, m, g) ==
    IF k > LedRows * NumCols
    THEN [LED_PINS |-> m, gpio |-> g]
    ELSE LET drawer_id == RowMajor(LedRows)[k] IN
         IF pin_index < Len(pins)
         THEN setup_loop(k + 1, pin_index + 1, pins,
                         (drawer_id :> pins[pin_index + 1]) @@ m,
                         (pins[pin_index + 1] :> LOW) @@ g)
         ELSE setup_loop(k + 1, pin_index, pins, m, g)

\* the last row gets None
EmptyRow == [d \in {DrawerId(NumRows, col) : col \in 1..NumCols} |-> None]

setup_gpio_on(pins) ==
    LET r == setup_loop(1, 0, pins, <<>>, <<>>) IN
    [LED_PINS |-> EmptyRow @@ r.LED_PINS,
     gpio |-> [p \in DOMAIN r.gpio |-> HIGH]]

setup_gpio(pins) ==
    LET r == setup_loop(1, 0, pins, <<>>, <<>>) IN
    [LED_PINS |-> EmptyRow @@ r.LED_PINS, gpio |-> r.gpio]

\* self.led_states as __init__ builds it
InitLedStatesShort == [d \in SeqToSet(RowMajor(LedRows)) |-> FALSE]

InitLedStates == [d \in SeqToSet(RowMajor(NumRows)) |-> FALSE]

\* ---- set_led -----------------------------------------------------------
\* self.LED_PINS.keys(), in insertion order
LedPinKeys ==
    LET all == RowMajor(NumRows)
        F[i \in 0..Len(all)] ==
            IF i = 0 THEN <<>>
            ELSE IF all[i] \in DOMAIN LED_PINS THEN Append(F[i - 1], all[i])
                 ELSE F[i - 1]
    IN F[Len(all)]

\* the guard of set_led
AssignedAny(drawer_id) == drawer_id \in DOMAIN LED_PINS

Assigned(drawer_id) ==
    drawer_id \in DOMAIN LED_PINS /\ LED_PINS[drawer_id] # None

\* GPIO.output(pin, GPIO.HIGH if state else GPIO.LOW)
HwWrite(g, pin, state) == [g EXCEPT ![pin] = IF state THEN HIGH ELSE LOW]

\* self.led_states[drawer_id] = state
StoreStateOnly(ls, drawer_id, state) ==
    [k \in DOMAIN ls \cup {drawer_id} |-> IF k = drawer_id THEN state ELSE FALSE]

StoreState(ls, drawer_id, state) ==
    [k \in DOMAIN ls \cup {drawer_id} |-> IF k = drawer_id THEN state ELSE ls[k]]

\* self.led_states.get(drawer_id, False)
GetStateDefault(ls, drawer_id) == FALSE

GetState(ls, drawer_id) ==
    IF drawer_id \in DOMAIN ls THEN ls[drawer_id] ELSE FALSE

\* ---- threads -----------------------------------------------------------
IdleReq == [pc |-> "idle", op |-> "none", drawer_id |-> NoId,
            state |-> FALSE, idx |-> 0, result |-> "none"]
IdleSeq == [pc |-> "Idle", sub |-> "none", idx |-> 0]

\* ---- drawer records and their file -------------------------------------
\* one drawer record as load_drawer_data and the browser build it
DrawerRecord(drawer_id, name, items, notes) ==
    [id |-> drawer_id, name |-> name, items |-> items, notes |-> notes,
     row |-> drawer_id[1], col |-> drawer_id[2]]

\* default_data of load_drawer_data: every drawer of every row, empty fields
DefaultDataShort ==
    [d \in SeqToSet(RowMajor(LedRows)) |-> DrawerRecord(d, "", <<>>, "")]

DefaultData ==
    [d \in SeqToSet(RowMajor(NumRows)) |-> DrawerRecord(d, "", <<>>, "")]

\* bodies a client posts to /api/drawers: the default set after an edit of
\* drawer 1-1, a set of one record, a set of two, and the empty object
RecordSets ==
    { [DefaultData EXCEPT ![DrawerId(1, 1)] =
          DrawerRecord(DrawerId(1, 1), "LEDs", <<"red 5mm x20">>, "")],
      (DrawerId(1, 1) :> DrawerRecord(DrawerId(1, 1), "LEDs", <<"red 5mm x20">>, "")),
      (DrawerId(1, 2) :> DrawerRecord(DrawerId(1, 2), "R", <<"220", "330">>, "1/4 W"))
         @@ (DrawerId(NumRows, 1) :> DrawerRecord(DrawerId(NumRows, 1), "misc", <<>>, "")),
      <<>> }

\* the file is text; the model keeps it as the sequence of pieces json.dump
\* writes: the opening brace, one piece per key with its record, the
\* closing brace.  Nul is what the file system puts in a hole.
Piece(kind, key, value) == [kind |-> kind, key |-> key, value |-> value]
BlankRecord == [id |-> NoId, name |-> "", items |-> <<>>, notes |-> "",
                row |-> 0, col |-> 0]
Brace(kind) == Piece(kind, NoId, BlankRecord)
Nul == Brace("nul")

\* the keys of a posted object, in the order the model writes them
KeysOf(data) ==
    LET all == RowMajor(NumRows)
        F[i \in 0..Len(all)] ==
            IF i = 0 THEN <<>>
            ELSE IF all[i] \in DOMAIN data THEN Append(F[i - 1], all[i])
                 ELSE F[i - 1]
    IN F[Len(all)]

\* json.dump(data, f, ensure_ascii=False, indent=2): the pieces written
json_dump(data) ==
    <<Brace("{")>>
    \o [i \in 1..Len(KeysOf(data)) |->
           Piece("entry", KeysOf(data)[i], data[KeysOf(data)[i]])]
    \o <<Brace("}")>>

\* json.load(f): the object, if the text is one whole object; a key that
\* occurs twice keeps its last value
json_load(text) ==
    LET n == Len(text)
        whole == /\ n >= 2
                 /\ text[1].kind = "{"
                 /\ text[n].kind = "}"
                 /\ \A i \in 2..(n - 1) : text[i].kind = "entry"
        keys == {text[i].key : i \in 2..(n - 1)}
        last(k) == CHOOSE i \in 2..(n - 1) :
                      /\ text[i].key = k
                      /\ \A j \in (i + 1)..(n - 1) : text[j].key # k
    IN IF whole
       THEN [ok |-> TRUE, data |-> [k \in keys |-> text[last(k)].value]]
       ELSE [ok |-> FALSE, data |-> <<>>]

\* f.write at offset pos of the file (1 is the first piece)
WriteAt(text, pos, piece) ==
    IF pos <= Len(text) THEN [text EXCEPT ![pos] = piece]
    ELSE text \o [i \in 1..(pos - Len(text) - 1) |-> Nul] \o <<piece>>

NoFile == [exists |-> FALSE, text |-> <<>>]
IdleDrw == [pc |-> "idle", op |-> "none", data |-> <<>>, pos |-> 0,
            result |-> "none"]

Init ==
    /\ LED_PINS = setup_gpio(gpio_pins).LED_PINS
    /\ gpio = setup_gpio(gpio_pins).gpio
    /\ led_states = InitLedStates
    /\ req = [t \in Threads |-> IdleReq]
    /\ seq = [t \in Threads |-> IdleSeq]
    /\ data_file = NoFile
    /\ drw = [t \in Threads |-> IdleDrw]
    /\ highlighted = {}
    /\ pending = {}
    /\ searches = <<>>

\* ---- toggle_led --------------------------------------------------------
\* current_state = self.led_states.get(drawer_id, False); new_state = not ..
ToggleLedRead(t, drawer_id) ==
    /\ req[t].pc = "idle"
    /\ req' = [req EXCEPT ![t] =
                 [IdleReq EXCEPT !.pc = "set_led", !.op = "toggle",
                                 !.drawer_id = drawer_id,
                                 !.state = ~GetState(led_states, drawer_id)]]
    /\ UNCHANGED <<store_vars, LED_PINS, gpio, led_states, seq>>

\* a toggle request sent by any client but the modelled browser
ToggleLed(t, drawer_id) ==
    /\ ToggleLedRead(t, drawer_id)
    /\ UNCHANGED browser_vars

\* set_led called by toggle_led: the guard and GPIO.output, or return False
\* and the handler answers success False
ToggleSetLedHwLocked(t) ==
    /\ req[t].pc = "set_led"
    /\ \A u \in Threads : seq[u].sub \notin {"hold", "hold150"}
    /\ IF Assigned(req[t].drawer_id)
       THEN /\ gpio' = HwWrite(gpio, LED_PINS[req[t].drawer_id], req[t].state)
            /\ req' = [req EXCEPT ![t].pc = "store"]
       ELSE /\ gpio' = gpio
            /\ req' = [req EXCEPT ![t].pc = "done", ![t].result = "NotAssigned"]
    /\ UNCHANGED <<store_vars, browser_vars, LED_PINS, led_states, seq>>

ToggleSetLedHw(t) ==
    /\ req[t].pc = "set_led"
    /\ IF Assigned(req[t].drawer_id)
       THEN /\ gpio' = HwWrite(gpio, LED_PINS[req[t].drawer_id], req[t].state)
            /\ req' = [req EXCEPT ![t].pc = "store"]
       ELSE /\ gpio' = gpio
            /\ req' = [req EXCEPT ![t].pc = "done", ![t].result = "NotAssigned"]
    /\ UNCHANGED <<store_vars, browser_vars, LED_PINS, led_states, seq>>

\* set_led called by toggle_led: the store, return True, and the handler
\* answers success with new_state
ToggleSetLedStore(t) ==
    /\ req[t].pc = "store"
    /\ led_states' = StoreState(led_states, req[t].drawer_id, req[t].state)
    /\ req' = [req EXCEPT ![t].pc = "done", ![t].result = "ok"]
    /\ UNCHANGED <<store_vars, browser_vars, LED_PINS, gpio, seq>>

\* ---- set_all_leds ------------------------------------------------------
\* where the handler stands after the idx-th key of LED_PINS
AfterKeyEarly(r, idx) ==
    IF idx >= LedRows * NumCols - 1
    THEN [r EXCEPT !.pc = "done", !.idx = 0, !.result = "ok"]
    ELSE [r EXCEPT !.pc = "loop", !.idx = idx + 1]

AfterKey(r, idx) ==
    IF idx >= Len(LedPinKeys)
    THEN [r EXCEPT !.pc = "done", !.idx = 0, !.result = "ok"]
    ELSE [r EXCEPT !.pc = "loop", !.idx = idx + 1]

\* led_state = state.lower() == 'on', and the loop is entered
SetAllLeds(t, s) ==
    /\ req[t].pc = "idle"
    /\ req' = [req EXCEPT ![t] =
                 AfterKey([IdleReq EXCEPT !.op = "set_all",
                                          !.state = (lower(s) = "on")], 0)]
    /\ UNCHANGED <<store_vars, browser_vars, LED_PINS, gpio, led_states, seq>>

\* one key of the loop: a key with None is passed over, else set_led's
\* GPIO.output
SetAllHwDirect(t) ==
    /\ req[t].pc = "loop"
    /\ LET drawer_id == LedPinKeys[req[t].idx] IN
       IF LED_PINS[drawer_id] # None /\ Assigned(drawer_id)
       THEN /\ gpio' = HwWrite(gpio, LED_PINS[drawer_id], req[t].state)
            /\ req' = [req EXCEPT ![t] = AfterKey(req[t], req[t].idx)]
       ELSE /\ gpio' = gpio
            /\ req' = [req EXCEPT ![t] = AfterKey(req[t], req[t].idx)]
    /\ UNCHANGED <<store_vars, browser_vars, LED_PINS, led_states, seq>>

SetAllHw(t) ==
    /\ req[t].pc = "loop"
    /\ LET drawer_id == LedPinKeys[req[t].idx] IN
       IF LED_PINS[drawer_id] # None /\ Assigned(drawer_id)
       THEN /\ gpio' = HwWrite(gpio, LED_PINS[drawer_id], req[t].state)
            /\ req' = [req EXCEPT ![t].pc = "loop_store"]
       ELSE /\ gpio' = gpio
            /\ req' = [req EXCEPT ![t] = AfterKey(req[t], req[t].idx)]
    /\ UNCHANGED <<store_vars, browser_vars, LED_PINS, led_states, seq>>

\* set_led's store for that key; after the last key the handler answers
SetAllStore(t) ==
    /\ req[t].pc = "loop_store"
    /\ led_states' = StoreState(led_states, LedPinKeys[req[t].idx], req[t].state)
    /\ req' = [req EXCEPT ![t] = AfterKey(req[t], req[t].idx)]
    /\ UNCHANGED <<store_vars, browser_vars, LED_PINS, gpio, seq>>

\* ---- test_leds / run_led_test ------------------------------------------
\* the steps of test_sequence, in program order
NextPhaseSkip(p) ==
    CASE p = "AllOff" -> "Sweeping"
      [] p = "Sweeping" -> "AllOffFinal"
      [] p = "AllOn" -> "AllOffFinal"
      [] p = "AllOffFinal" -> "Idle"

NextPhase(p) ==
    CASE p = "AllOff" -> "Sweeping"
      [] p = "Sweeping" -> "AllOn"
      [] p = "AllOn" -> "AllOffFinal"
      [] p = "AllOffFinal" -> "Idle"

\* the value the three set-all loops of test_sequence write
PhaseValueLast(p) == p \in {"AllOn", "AllOffFinal"}

PhaseValue(p) == p = "AllOn"

\* the thread as it enters phase p
EnterPhase(p) ==
    CASE p = "Sweeping" -> [pc |-> p, sub |-> "on_hw", idx |-> 1]
      [] p = "Idle" -> [pc |-> p, sub |-> "finished", idx |-> 0]
      [] OTHER -> [pc |-> p, sub |-> "hw", idx |-> 1]

\* test_thread.start()
TestLeds(t) ==
    /\ req[t].pc = "idle"
    /\ req' = [req EXCEPT ![t] = [IdleReq EXCEPT !.pc = "started", !.op = "test"]]
    /\ seq' = [seq EXCEPT ![t] = EnterPhase("AllOff")]
    /\ UNCHANGED <<store_vars, browser_vars, LED_PINS, gpio, led_states>>

\* return jsonify({'success': True})
TestReturnJoin(t) ==
    /\ req[t].pc = "started"
    /\ seq[t].pc = "Idle"
    /\ req' = [req EXCEPT ![t].pc = "done", ![t].result = "ok"]
    /\ UNCHANGED <<store_vars, browser_vars, LED_PINS, gpio, led_states, seq>>

TestReturn(t) ==
    /\ req[t].pc = "started"
    /\ req' = [req EXCEPT ![t].pc = "done", ![t].result = "ok"]
    /\ UNCHANGED <<store_vars, browser_vars, LED_PINS, gpio, led_states, seq>>

AllPhases == {"AllOff", "AllOn", "AllOffFinal"}

\* where the thread stands after the idx-th key of a set-all loop: the
\* sleep that follows the loop, or the end of the sequence
SeqAfterKey(s, idx) ==
    IF idx < Len(LedPinKeys) THEN [s EXCEPT !.sub = "hw", !.idx = idx + 1]
    ELSE IF s.pc = "AllOffFinal" THEN EnterPhase(NextPhase(s.pc))
    ELSE [s EXCEPT !.sub = "hold", !.idx = 0]

\* one key of a set-all loop of test_sequence
SeqAllHwLazy(t) ==
    /\ seq[t].pc \in AllPhases
    /\ seq[t].sub = "hw"
    /\ LET drawer_id == LedPinKeys[seq[t].idx] IN
       IF LED_PINS[drawer_id] # None /\ Assigned(drawer_id)
       THEN /\ gpio' = IF seq[t].pc = "AllOffFinal" THEN gpio
                       ELSE HwWrite(gpio, LED_PINS[drawer_id], PhaseValue(seq[t].pc))
            /\ seq' = [seq EXCEPT ![t].sub = "store"]
       ELSE /\ gpio' = gpio
            /\ seq' = [seq EXCEPT ![t] = SeqAfterKey(seq[t], seq[t].idx)]
    /\ UNCHANGED <<store_vars, browser_vars, LED_PINS, led_states, req>>

SeqAllHw(t) ==
    /\ seq[t].pc \in AllPhases
    /\ seq[t].sub = "hw"
    /\ LET drawer_id == LedPinKeys[seq[t].idx] IN
       IF LED_PINS[drawer_id] # None /\ Assigned(drawer_id)
       THEN /\ gpio' = HwWrite(gpio, LED_PINS[drawer_id], PhaseValue(seq[t].pc))
            /\ seq' = [seq EXCEPT ![t].sub = "store"]
       ELSE /\ gpio' = gpio
            /\ seq' = [seq EXCEPT ![t] = SeqAfterKey(seq[t], seq[t].idx)]
    /\ UNCHANGED <<store_vars, browser_vars, LED_PINS, led_states, req>>

SeqAllStoreStay(t) ==
    /\ seq[t].pc \in AllPhases
    /\ seq[t].sub = "store"
    /\ led_states' = StoreState(led_states, LedPinKeys[seq[t].idx],
                                PhaseValue(seq[t].pc))
    /\ seq' = [seq EXCEPT ![t].sub = "hw"]
    /\ UNCHANGED <<store_vars, browser_vars, LED_PINS, gpio, req>>

SeqAllStore(t) ==
    /\ seq[t].pc \in AllPhases
    /\ seq[t].sub = "store"
    /\ led_states' = StoreState(led_states, LedPinKeys[seq[t].idx],
                                PhaseValue(seq[t].pc))
    /\ seq' = [seq EXCEPT ![t] = SeqAfterKey(seq[t], seq[t].idx)]
    /\ UNCHANGED <<store_vars, browser_vars, LED_PINS, gpio, req>>

\* the end of time.sleep(0.5) or time.sleep(1) after a loop
SeqHoldAfterSave(t) ==
    /\ seq[t].pc # "Idle"
    /\ seq[t].sub = "hold"
    /\ \A u \in Threads : drw[u].pc \notin {"open", "dump", "close"}
    /\ seq' = [seq EXCEPT ![t] = EnterPhase(NextPhase(seq[t].pc))]
    /\ UNCHANGED <<store_vars, browser_vars, LED_PINS, gpio, led_states, req>>

SeqHold(t) ==
    /\ seq[t].pc # "Idle"
    /\ seq[t].sub = "hold"
    /\ seq' = [seq EXCEPT ![t] = EnterPhase(NextPhase(seq[t].pc))]
    /\ UNCHANGED <<store_vars, browser_vars, LED_PINS, gpio, led_states, req>>

\* where the thread stands after the idx-th drawer of the sweep
SweepAfterSkip(s, idx) ==
    IF idx < LedRows * NumCols - 1 THEN [s EXCEPT !.sub = "on_hw", !.idx = idx + 2]
    ELSE [s EXCEPT !.sub = "hold", !.idx = 0]

SweepAfter(s, idx) ==
    IF idx < LedRows * NumCols THEN [s EXCEPT !.sub = "on_hw", !.idx = idx + 1]
    ELSE [s EXCEPT !.sub = "hold", !.idx = 0]

\* the sweep: self.LED_PINS[drawer_id] raises KeyError for a missing key and
\* the except clause ends the thread; None is passed over; else
\* set_led(drawer_id, True) writes the pin
SweepOnHw(t) ==
    /\ seq[t].pc = "Sweeping"
    /\ seq[t].sub = "on_hw"
    /\ LET drawer_id == RowMajor(LedRows)[seq[t].idx] IN
       IF drawer_id \notin DOMAIN LED_PINS
       THEN /\ gpio' = gpio
            /\ seq' = [seq EXCEPT ![t] = [pc |-> "Idle", sub |-> "error", idx |-> 0]]
       ELSE IF LED_PINS[drawer_id] # None /\ Assigned(drawer_id)
       THEN /\ gpio' = HwWrite(gpio, LED_PINS[drawer_id], TRUE)
            /\ seq' = [seq EXCEPT ![t].sub = "on_store"]
       ELSE /\ gpio' = gpio
            /\ seq' = [seq EXCEPT ![t] = SweepAfter(seq[t], seq[t].idx)]
    /\ UNCHANGED <<store_vars, browser_vars, LED_PINS, led_states, req>>

SweepOnStore(t) ==
    /\ seq[t].pc = "Sweeping"
    /\ seq[t].sub = "on_store"
    /\ led_states' = StoreState(led_states, RowMajor(LedRows)[seq[t].idx], TRUE)
    /\ seq' = [seq EXCEPT ![t].sub = "hold150"]
    /\ UNCHANGED <<store_vars, browser_vars, LED_PINS, gpio, req>>

\* the end of time.sleep(0.15)
SweepHoldSkipOff(t) ==
    /\ seq[t].pc = "Sweeping"
    /\ seq[t].sub = "hold150"
    /\ seq' = [seq EXCEPT ![t] = SweepAfter(seq[t], seq[t].idx)]
    /\ UNCHANGED <<store_vars, browser_vars, LED_PINS, gpio, led_states, req>>

SweepHold(t) ==
    /\ seq[t].pc = "Sweeping"
    /\ seq[t].sub = "hold150"
    /\ seq' = [seq EXCEPT ![t].sub = "off_hw"]
    /\ UNCHANGED <<store_vars, browser_vars, LED_PINS, gpio, led_states, req>>

\* set_led(drawer_id, False)
SweepOffHw(t) ==
    /\ seq[t].pc = "Sweeping"
    /\ seq[t].sub = "off_hw"
    /\ LET drawer_id == RowMajor(LedRows)[seq[t].idx] IN
       IF Assigned(drawer_id)
       THEN /\ gpio' = HwWrite(gpio, LED_PINS[drawer_id], FALSE)
            /\ seq' = [seq EXCEPT ![t].sub = "off_store"]
       ELSE /\ gpio' = gpio
            /\ seq' = [seq EXCEPT ![t] = SweepAfter(seq[t], seq[t].idx)]
    /\ UNCHANGED <<store_vars, browser_vars, LED_PINS, led_states, req>>

SweepOffStore(t) ==
    /\ seq[t].pc = "Sweeping"
    /\ seq[t].sub = "off_store"
    /\ led_states' = StoreState(led_states, RowMajor(LedRows)[seq[t].idx], FALSE)
    /\ seq' = [seq EXCEPT ![t] = SweepAfter(seq[t], seq[t].idx)]
    /\ UNCHANGED <<store_vars, browser_vars, LED_PINS, gpio, req>>

\* ---- get_status --------------------------------------------------------
\* led_count of the answer
LedCount == Cardinality({d \in DOMAIN LED_PINS : LED_PINS[d] # None})

\* the status request: reads LED_PINS and led_states and answers; idx holds
\* the led_count it reports
GetStatus(t) ==
    /\ req[t].pc = "idle"
    /\ req' = [req EXCEPT ![t] =
                 [IdleReq EXCEPT !.pc = "done", !.op = "status",
                                 !.idx = LedCount, !.result = "ok"]]
    /\ UNCHANGED <<store_vars, browser_vars, LED_PINS, gpio, led_states, seq>>

\* ---- get_drawers / load_drawer_data -----------------------------------
\* the file exists and parses: its object; else (no file, or the exception
\* of open / json.load caught) the default set.  The handler answers
\* success either way.
load_drawer_data(file) ==
    IF file.exists /\ json_load(file.text).ok
    THEN json_load(file.text).data
    ELSE DefaultData

GetDrawers(t) ==
    /\ drw[t].pc = "idle"
    /\ drw' = [drw EXCEPT ![t] =
                 [IdleDrw EXCEPT !.pc = "done", !.op = "load",
                                 !.data = load_drawer_data(data_file),
                                 !.result = "ok"]]
    /\ UNCHANGED <<browser_vars, LED_PINS, gpio, led_states, req, seq, data_file>>

\* ---- save_drawers / save_drawer_data ----------------------------------
\* data = request.get_json()
SaveDrawers(t, data) ==
    /\ drw[t].pc = "idle"
    /\ drw' = [drw EXCEPT ![t] = [IdleDrw EXCEPT !.pc = "open", !.op = "save",
                                                 !.data = data]]
    /\ UNCHANGED <<browser_vars, LED_PINS, gpio, led_states, req, seq, data_file>>

\* open(self.data_file, 'w'): creates the file or truncates it
SaveOpenKeep(t) ==
    /\ drw[t].pc = "open"
    /\ data_file' = [exists |-> TRUE, text |-> data_file.text]
    /\ drw' = [drw EXCEPT ![t].pc = "dump", ![t].pos = 1]
    /\ UNCHANGED <<browser_vars, LED_PINS, gpio, led_states, req, seq>>

SaveOpen(t) ==
    /\ drw[t].pc = "open"
    /\ data_file' = [exists |-> TRUE, text |-> <<>>]
    /\ drw' = [drw EXCEPT ![t].pc = "dump", ![t].pos = 1]
    /\ UNCHANGED <<browser_vars, LED_PINS, gpio, led_states, req, seq>>

\* json.dump: the next piece reaches the file
SaveWrite(t) ==
    /\ drw[t].pc = "dump"
    /\ data_file' = [data_file EXCEPT
                       !.text = WriteAt(@, drw[t].pos, json_dump(drw[t].data)[drw[t].pos])]
    /\ drw' = [drw EXCEPT ![t].pos = @ + 1,
                          ![t].pc = IF drw[t].pos >= Len(json_dump(drw[t].data))
                                    THEN "close" ELSE "dump"]
    /\ UNCHANGED <<browser_vars, LED_PINS, gpio, led_states, req, seq>>

\* the with block ends, return True, and the handler answers success
SaveClose(t) ==
    /\ drw[t].pc = "close"
    /\ drw' = [drw EXCEPT ![t].pc = "done", ![t].result = "ok"]
    /\ UNCHANGED <<browser_vars, LED_PINS, gpio, led_states, req, seq, data_file>>

\* open or a write raises (disk full, no permission): the except clause
\* returns False, the handler answers success False, the file stays as the
\* failure left it
SaveFail(t) ==
    /\ drw[t].pc \in {"open", "dump"}
    /\ drw' = [drw EXCEPT ![t].pc = "done", ![t].result = "failed"]
    /\ UNCHANGED <<browser_vars, LED_PINS, gpio, led_states, req, seq, data_file>>

\* ---- export_data -------------------------------------------------------
\* data = self.load_drawer_data(); the handler dumps it to a fresh file
\* under /tmp, which nothing else reads or writes, and sends that file;
\* data holds what is sent
ExportData(t) ==
    /\ drw[t].pc = "idle"
    /\ drw' = [drw EXCEPT ![t] =
                 [IdleDrw EXCEPT !.pc = "done", !.op = "export",
                                 !.data = load_drawer_data(data_file),
                                 !.result = "ok"]]
    /\ UNCHANGED <<browser_vars, LED_PINS, gpio, led_states, req, seq, data_file>>

\* ---- the program -------------------------------------------------------
Next ==
    \E t \in Threads :
        \/ \E drawer_id \in RequestIds : ToggleLed(t, drawer_id)
        \/ ToggleSetLedHw(t)
        \/ ToggleSetLedStore(t)
        \/ \E s \in StateArgs : SetAllLeds(t, s)
        \/ SetAllHw(t)
        \/ SetAllStore(t)
        \/ GetStatus(t)
        \/ TestLeds(t)
        \/ TestReturn(t)
        \/ SeqAllHw(t)
        \/ SeqAllStore(t)
        \/ SeqHold(t)
        \/ SweepOnHw(t)
        \/ SweepOnStore(t)
        \/ SweepHold(t)
        \/ SweepOffHw(t)
        \/ SweepOffStore(t)

Spec == Init /\ [][Next]_vars

\* a step of the test_sequence thread that handler t started
SeqStep(t) ==
    \/ SeqAllHw(t)
    \/ SeqAllStore(t)
    \/ SeqHold(t)
    \/ SweepOnHw(t)
    \/ SweepOnStore(t)
    \/ SweepHold(t)
    \/ SweepOffHw(t)
    \/ SweepOffStore(t)

\* the first handler thread serves a test request, the others any LED
\* request, a further test request included
StartLive(t) ==
    \/ t = 1 /\ TestLeds(t)
    \/ /\ t > 1
       /\ \/ \E drawer_id \in RequestIds : ToggleLed(t, drawer_id)
          \/ \E s \in StateArgs : SetAllLeds(t, s)
          \/ TestLeds(t)

\* the return of test_leds shares no state with the thread it started, so
\* the order of the two does not show; the thread's steps are taken after it
SeqStepLive(t) == req[t].pc = "done" /\ SeqStep(t)

NextLive ==
    \E t \in Threads :
        \/ StartLive(t)
        \/ ToggleSetLedHw(t)
        \/ ToggleSetLedStore(t)
        \/ SetAllHw(t)
        \/ SetAllStore(t)
        \/ TestReturn(t)
        \/ SeqStepLive(t)

\* every test_sequence thread is scheduled again and again while it can
\* run, and so is the handler that started it; the other handler threads
\* may be starved
SpecLive ==
    /\ Init /\ [][NextLive]_vars
    /\ \A t \in Threads : WF_vars(TestReturn(t)) /\ WF_vars(SeqStepLive(t))

\* test requests only, as many as there are handler threads, at any time
NextTests ==
    \E t \in Threads :
        \/ TestLeds(t)
        \/ TestReturn(t)
        \/ SeqStep(t)

SpecTests == Init /\ [][NextTests]_vars

\* a test sequence with nothing else running: the only request ever served
\* is one test request
TestLedsAlone(t) ==
    /\ \A u \in Threads : req[u].pc = "idle"
    /\ TestLeds(t)

NextSeq ==
    \E t \in Threads :
        \/ TestLedsAlone(t)
        \/ TestReturn(t)
        \/ SeqAllHw(t)
        \/ SeqAllStore(t)
        \/ SeqHold(t)
        \/ SweepOnHw(t)
        \/ SweepOnStore(t)
        \/ SweepHold(t)
        \/ SweepOffHw(t)
        \/ SweepOffStore(t)

SpecSeq == Init /\ [][NextSeq]_vars

\* ---- requests served one after the other -------------------------------
\* the state the server is in after earlier requests switched on exactly the
\* drawers of `on` and finished
Quiescent(on) ==
    /\ led_states = [d \in AllIds |-> d \in on]
    /\ gpio = [p \in DOMAIN setup_gpio(gpio_pins).gpio |->
                 IF \E d \in on : LED_PINS[d] = p THEN HIGH ELSE LOW]

InitSerial ==
    /\ LED_PINS = setup_gpio(gpio_pins).LED_PINS
    /\ \E on \in SUBSET {d \in AllIds : LED_PINS[d] # None} : Quiescent(on)
    /\ req = [t \in Threads |-> IdleReq]
    /\ seq = [t \in Threads |-> IdleSeq]
    /\ data_file = NoFile
    /\ drw = [t \in Threads |-> IdleDrw]
    /\ highlighted = {}
    /\ pending = {}
    /\ searches = <<>>

\* thread t serves its request after every thread before it has finished
\* and before any thread after it starts
Turn(t) ==
    /\ \A u \in Threads : u < t => req[u].pc = "done" /\ seq[u].pc = "Idle"
    /\ \A u \in Threads : u > t => req[u].pc = "idle"

SerialToggle(t) ==
    /\ Turn(t)
    /\ \/ \E drawer_id \in RequestIds : ToggleLed(t, drawer_id)
       \/ ToggleSetLedHw(t)
       \/ ToggleSetLedStore(t)

SerialSetAll(t) ==
    /\ Turn(t)
    /\ \/ \E s \in StateArgs : SetAllLeds(t, s)
       \/ SetAllHw(t)
       \/ SetAllStore(t)

SerialStatus(t) == Turn(t) /\ GetStatus(t)

NextSerial ==
    \E t \in Threads : SerialToggle(t) \/ SerialSetAll(t) \/ SerialStatus(t)

SpecSerial == InitSerial /\ [][NextSerial]_vars

\* ---- a test sequence that may fail -------------------------------------
\* a call inside test_sequence raises (GPIO.output on a pin the library
\* refuses, a KeyError): `except Exception` prints the error and the thread
\* ends where it stands
SeqFailCrash(t) ==
    /\ seq[t].pc # "Idle"
    /\ seq' = [seq EXCEPT ![t] = [pc |-> "Idle", sub |-> "error", idx |-> 0]]
    /\ req' = [u \in Threads |-> [req[u] EXCEPT !.pc = "done", !.result = "crashed"]]
    /\ UNCHANGED <<store_vars, browser_vars, LED_PINS, gpio, led_states>>

SeqFail(t) ==
    /\ seq[t].pc # "Idle"
    /\ seq' = [seq EXCEPT ![t] = [pc |-> "Idle", sub |-> "error", idx |-> 0]]
    /\ UNCHANGED <<store_vars, browser_vars, LED_PINS, gpio, led_states, req>>

SerialTest(t) ==
    /\ Turn(t)
    /\ \/ TestLeds(t)
       \/ TestReturn(t)
       \/ SeqAllHw(t)
       \/ SeqAllStore(t)
       \/ SeqHold(t)
       \/ SweepOnHw(t)
       \/ SweepOnStore(t)
       \/ SweepHold(t)
       \/ SweepOffHw(t)
       \/ SweepOffStore(t)

SerialTestFail(t) == Turn(t) /\ SeqFail(t)

NextFail ==
    \E t \in Threads :
        \/ SerialTest(t)
        \/ SerialTestFail(t)
        \/ SerialToggle(t)
        \/ SerialSetAll(t)

SpecFail == Init /\ [][NextFail]_vars

\* ---- drawer requests served one after the other ------------------------
\* the file is absent, or is what an earlier run of the server saved
InitStore ==
    /\ LED_PINS = setup_gpio(gpio_pins).LED_PINS
    /\ gpio = setup_gpio(gpio_pins).gpio
    /\ led_states = InitLedStates
    /\ req = [t \in Threads |-> IdleReq]
    /\ seq = [t \in Threads |-> IdleSeq]
    /\ \/ data_file = NoFile
       \/ \E data \in RecordSets :
             data_file = [exists |-> TRUE, text |-> json_dump(data)]
    /\ drw = [t \in Threads |-> IdleDrw]
    /\ highlighted = {}
    /\ pending = {}
    /\ searches = <<>>

StoreTurn(t) ==
    /\ \A u \in Threads : u < t => drw[u].pc = "done"
    /\ \A u \in Threads : u > t => drw[u].pc = "idle"

SerialLoad(t) == StoreTurn(t) /\ GetDrawers(t)

SerialSave(t) ==
    /\ StoreTurn(t)
    /\ \/ \E data \in RecordSets : SaveDrawers(t, data)
       \/ SaveOpen(t)
       \/ SaveWrite(t)
       \/ SaveClose(t)

SerialSaveFail(t) == StoreTurn(t) /\ SaveFail(t)

NextStore ==
    \E t \in Threads : SerialLoad(t) \/ SerialSave(t) \/ SerialSaveFail(t)

SpecStore == InitStore /\ [][NextStore]_vars

\* ---- drawer requests served concurrently --------------------------------
\* the file is what an earlier successful save_drawer_data left
InitSaved ==
    /\ LED_PINS = setup_gpio(gpio_pins).LED_PINS
    /\ gpio = setup_gpio(gpio_pins).gpio
    /\ led_states = InitLedStates
    /\ req = [t \in Threads |-> IdleReq]
    /\ seq = [t \in Threads |-> IdleSeq]
    /\ \E data \in RecordSets :
          data_file = [exists |-> TRUE, text |-> json_dump(data)]
    /\ drw = [t \in Threads |-> IdleDrw]
    /\ highlighted = {}
    /\ pending = {}
    /\ searches = <<>>

\* the threaded server runs get_drawers and save_drawers side by side; no
\* lock guards the file
NextDrawers ==
    \E t \in Threads :
        \/ GetDrawers(t)
        \/ \E data \in RecordSets : SaveDrawers(t, data)
        \/ SaveOpen(t)
        \/ SaveWrite(t)
        \/ SaveClose(t)

SpecDrawers == InitSaved /\ [][NextDrawers]_vars

\* ---- one LED request and one drawer request side by side ---------------
\* the only LED request ever served
LedAlone(t) ==
    /\ \A u \in Threads : req[u].pc = "idle"
    /\ \/ \E drawer_id \in RequestIds : ToggleLed(t, drawer_id)
       \/ \E s \in StateArgs : SetAllLeds(t, s)
       \/ TestLeds(t)

\* the only drawer request ever served
DrawerAlone(t) ==
    /\ \A u \in Threads : drw[u].pc = "idle"
    /\ \/ GetDrawers(t)
       \/ \E data \in RecordSets : SaveDrawers(t, data)
       \/ ExportData(t)

NextMixed ==
    \E t \in Threads :
        \/ LedAlone(t)
        \/ ToggleSetLedHw(t)
        \/ ToggleSetLedStore(t)
        \/ SetAllHw(t)
        \/ SetAllStore(t)
        \/ TestReturn(t)
        \/ SeqAllHw(t)
        \/ SeqAllStore(t)
        \/ SeqHold(t)
        \/ SweepOnHw(t)
        \/ SweepOnStore(t)
        \/ SweepHold(t)
        \/ SweepOffHw(t)
        \/ SweepOffStore(t)
        \/ DrawerAlone(t)
        \/ SaveOpen(t)
        \/ SaveWrite(t)
        \/ SaveClose(t)
        \/ SaveFail(t)

SpecMixed == InitStore /\ [][NextMixed]_vars

\* ---- the browser's highlightDrawers ------------------------------------
\* parseInt(drawerId.split('-')[0])
Row(drawer_id) == drawer_id[1]

\* drawers a search can match: one of the first row, the last one with an
\* LED, one of the row without LEDs
HighlightIds == {DrawerId(1, 1), DrawerId(LedRows, NumCols), DrawerId(NumRows, 1)}

\* no toggle request of the browser is under way
Quiet ==
    /\ pending = {}
    /\ \A t \in Threads : req[t].pc \in {"idle", "done"}

\* highlightDrawers(drawerIds), called once the requests of the call before
\* it have been answered: the class moves to the matches and one toggle
\* request goes out for every match with row <= 7
HighlightDrawersAll(drawerIds) ==
    /\ Quiet
    /\ Len(searches) < MaxSearches
    /\ highlighted' = drawerIds
    /\ pending' = drawerIds
    /\ searches' = Append(searches, drawerIds)
    /\ UNCHANGED <<store_vars, LED_PINS, gpio, led_states, req, seq>>

HighlightDrawers(drawerIds) ==
    /\ Quiet
    /\ Len(searches) < MaxSearches
    /\ highlighted' = drawerIds
    /\ pending' = {d \in drawerIds : Row(d) <= LedRows}
    /\ searches' = Append(searches, drawerIds)
    /\ UNCHANGED <<store_vars, LED_PINS, gpio, led_states, req, seq>>

\* the server takes up one of the browser's toggle requests
FetchToggle(t) ==
    /\ \E drawer_id \in pending :
          /\ ToggleLedRead(t, drawer_id)
          /\ pending' = pending \ {drawer_id}
    /\ UNCHANGED <<highlighted, searches>>

\* the server thread that answered a request serves another one
Recycle(t) ==
    /\ req[t].pc = "done"
    /\ seq[t].pc = "Idle"
    /\ req' = [req EXCEPT ![t] = IdleReq]
    /\ UNCHANGED <<store_vars, browser_vars, LED_PINS, gpio, led_states, seq>>

NextHighlight ==
    \/ \E drawerIds \in SUBSET HighlightIds : HighlightDrawers(drawerIds)
    \/ \E t \in Threads :
          \/ FetchToggle(t)
          \/ ToggleSetLedHw(t)
          \/ ToggleSetLedStore(t)
          \/ Recycle(t)

SpecHighlight == Init /\ [][NextHighlight]_vars

\* ---- a server whose setup_gpio has a shorter gpio_pins list -------------
\* the first n entries of gpio_pins
Catalog(n) == SubSeq(gpio_pins, 1, n)

\* the sweep and the all-on / all-off loops need one pin per drawer of the
\* rows with LEDs
FullLen == LedRows * NumCols

InitShort ==
    /\ \E n \in 0..FullLen :
          /\ LED_PINS = setup_gpio(Catalog(n)).LED_PINS
          /\ gpio = setup_gpio(Catalog(n)).gpio
    /\ led_states = InitLedStates
    /\ req = [t \in Threads |-> IdleReq]
    /\ seq = [t \in Threads |-> IdleSeq]
    /\ data_file = NoFile
    /\ drw = [t \in Threads |-> IdleDrw]
    /\ highlighted = {}
    /\ pending = {}
    /\ searches = <<>>

\* one test request on such a server
SpecShort == InitShort /\ [][NextSeq]_vars

\* ---- vocabulary of the properties --------------------------------------
\* drawers with a line
AssignedIds == {d \in AllIds : Assigned(d)}
\* drawers of the last row
EmptyRowIds == {DrawerId(NumRows, col) : col \in 1..NumCols}
\* the line of drawer d is on
LineOn(d) == gpio[LED_PINS[d]] = HIGH
\* handler threads between GPIO.output and the store of one set_led call
ReqInSetLed == {t \in Threads : req[t].pc \in {"store", "loop_store"}}
\* sequence threads between GPIO.output and the store of one set_led call
SeqInSetLed == {t \in Threads : seq[t].sub \in {"store", "on_store", "off_store"}}
\* sequence threads that exist
Running == {t \in Threads : seq[t].pc # "Idle"}
\* thread t has served a toggle request to its end
ToggleDone(t) == req[t].op = "toggle" /\ req[t].pc = "done"
\* nothing but the requests of the threads in S was ever started
OnlyThreads(S) == \A u \in Threads \ S : req[u].pc = "idle"
AllOff == \A d \in AssignedIds : ~led_states[d] /\ ~LineOn(d)

\* C1: two toggle requests on the same assigned drawer, run concurrently
\* from state s, leave the drawer's led_states entry at s once both are
\* done (no lost update).  Every run starts with every entry False.
C1_ToggleNoLostUpdate ==
    \A t1, t2 \in Threads :
        ( /\ t1 # t2
          /\ ToggleDone(t1) /\ ToggleDone(t2)
          /\ req[t1].drawer_id = req[t2].drawer_id
          /\ Assigned(req[t1].drawer_id)
          /\ OnlyThreads({t1, t2}) )
        => led_states[req[t1].drawer_id] = InitLedStates[req[t1].drawer_id]

\* C2: at most one thread (handler or test sequence) is between the
\* hardware write and the led_states store of set_led.
C2_WritesSerialized ==
    Cardinality(ReqInSetLed) + Cardinality(SeqInSetLed) <= 1

\* C3: whenever no set_led call is in progress, the line of every assigned
\* drawer is on exactly when its led_states entry is true.
C3_LastWriteWins ==
    (ReqInSetLed = {} /\ SeqInSetLed = {})
    => \A d \in AssignedIds : LineOn(d) <=> led_states[d]

\* C4: a step of a toggle request on a drawer of the last row (no line)
\* ends the request with the NotAssigned failure, writes no pin and leaves
\* led_states as it is.
C4_UnassignedRejected ==
    [][\A t \in Threads :
          ( /\ req[t].op = "toggle"
            /\ req[t].drawer_id \in EmptyRowIds
            /\ req'[t] # req[t] )
          => /\ req'[t].pc = "done"
             /\ req'[t].result = "NotAssigned"
             /\ gpio' = gpio
             /\ led_states' = led_states]_vars

C4_Witness ==
    \E t \in Threads :
        /\ ToggleDone(t)
        /\ req[t].drawer_id \in EmptyRowIds
        /\ req[t].result = "NotAssigned"

\* C5: led_states is defined for exactly the drawers of the cabinet, and the
\* entry of every drawer without a line is False.
C5_LedStateTotal ==
    /\ DOMAIN led_states = AllIds
    /\ Cardinality(AllIds) = NumRows * NumCols
    /\ \A d \in AllIds : ~Assigned(d) => led_states[d] = FALSE

C5_Witness ==
    /\ \E t \in Threads : ToggleDone(t) /\ req[t].drawer_id \in BogusIds
    /\ \E t \in Threads : ToggleDone(t) /\ req[t].drawer_id \in EmptyRowIds

\* C6: every drawer of the rows with LEDs has exactly one line, these lines
\* are pairwise distinct, every drawer of the last row has none, and the
\* map is the one built at startup.
C6_PinMapBijection ==
    /\ DOMAIN LED_PINS = AllIds
    /\ \A d \in SeqToSet(RowMajor(LedRows)) : LED_PINS[d] \in SeqToSet(gpio_pins)
    /\ \A d, e \in SeqToSet(RowMajor(LedRows)) : LED_PINS[d] = LED_PINS[e] => d = e
    /\ Cardinality({LED_PINS[d] : d \in SeqToSet(RowMajor(LedRows))}) = LedRows * NumCols
    /\ \A d \in EmptyRowIds : LED_PINS[d] = None
    /\ \A d \in AssignedIds : LED_PINS[d] \in DOMAIN gpio
    /\ LED_PINS = setup_gpio(gpio_pins).LED_PINS

C6_Witness ==
    /\ Cardinality(AssignedIds) = LedRows * NumCols
    /\ \E t \in Threads : req[t].pc = "done"
    /\ \E t \in Threads : seq[t].sub = "finished"

\* C7: two set_led calls (made by two toggle requests) on two different
\* assigned drawers both take effect: once both are done, each drawer's
\* entry and line hold the value its own call wrote.
C7_DifferentDrawers ==
    \A t1, t2 \in Threads :
        ( /\ t1 # t2
          /\ ToggleDone(t1) /\ ToggleDone(t2)
          /\ req[t1].drawer_id # req[t2].drawer_id
          /\ Assigned(req[t1].drawer_id) /\ Assigned(req[t2].drawer_id)
          /\ OnlyThreads({t1, t2}) )
        => /\ led_states[req[t1].drawer_id] = req[t1].state
           /\ LineOn(req[t1].drawer_id) = req[t1].state
           /\ led_states[req[t2].drawer_id] = req[t2].state
           /\ LineOn(req[t2].drawer_id) = req[t2].state

C7_Witness ==
    \E t1, t2 \in Threads :
        /\ ToggleDone(t1) /\ ToggleDone(t2)
        /\ req[t1].drawer_id # req[t2].drawer_id
        /\ Assigned(req[t1].drawer_id) /\ Assigned(req[t2].drawer_id)
        /\ req[t1].result = "ok" /\ req[t2].result = "ok"

\* C8: at most one test sequence thread exists at any time.
C8_OneSequencer == Cardinality(Running) <= 1

\* C9: a test sequence that starts with every line off and runs to its end
\* with nothing else running leaves every assigned drawer's entry False and
\* its line off.
C9_SequenceEndsAllOff ==
    \A t \in Threads : seq[t].sub = "finished" => AllOff

C9_Witness ==
    \E t \in Threads : seq[t].sub = "finished" /\ req[t].pc = "done"

\* C10: a test sequence that does not fail changes phase only along
\* Idle, AllOff, Sweeping, AllOn, AllOffFinal, Idle; it leaves AllOff and
\* AllOn from their hold with every line off, respectively on, leaves
\* Sweeping from its hold, and re-enters Idle with every line off.
PhaseOrder == <<"Idle", "AllOff", "Sweeping", "AllOn", "AllOffFinal", "Idle">>

C10_PhaseOrder ==
    [][\A t \in Threads :
          (seq'[t].pc # seq[t].pc /\ seq'[t].sub # "error")
          => /\ \E i \in 1..(Len(PhaseOrder) - 1) :
                    seq[t].pc = PhaseOrder[i] /\ seq'[t].pc = PhaseOrder[i + 1]
             /\ seq[t].pc \in {"AllOff", "Sweeping", "AllOn"} => seq[t].sub = "hold"
             /\ seq[t].pc = "AllOff" => AllOff
             /\ seq[t].pc = "AllOn" => \A d \in AssignedIds : led_states[d] /\ LineOn(d)
             /\ seq[t].pc = "AllOffFinal" => AllOff']_vars

C10_Witness ==
    \E t \in Threads : seq[t].pc = "Idle" /\ seq[t].sub = "finished"

\* C11: the test request never waits for its sequence: in every state in
\* which the handler has started the thread, its return is enabled, whatever
\* phase the sequence is in, and it answers success.
C11_StartDoesNotBlock ==
    \A t \in Threads :
        /\ req[t].pc = "started" => ENABLED TestReturn(t)
        /\ (req[t].op = "test" /\ req[t].pc = "done") => req[t].result = "ok"

C11_Witness ==
    \E t \in Threads :
        /\ req[t].op = "test" /\ req[t].pc = "done" /\ req[t].result = "ok"
        /\ seq[t].pc = "AllOff"

\* C12: while a test sequence is inside one of its sleeps, every step of a
\* toggle, set-all or status request is enabled and leaves the sequence in
\* its sleep, so a request can start and run to its end before the sleep
\* ends.
InHold(t) == seq[t].sub \in {"hold", "hold150"}

C12_HoldsDoNotBlock ==
    \A t \in Threads : InHold(t) =>
        \A u \in Threads :
            /\ req[u].pc = "idle" =>
                  /\ \A d \in AllIds : ENABLED (ToggleLed(u, d) /\ seq'[t] = seq[t])
                  /\ \A s \in StateArgs : ENABLED (SetAllLeds(u, s) /\ seq'[t] = seq[t])
                  /\ ENABLED (GetStatus(u) /\ seq'[t] = seq[t])
            /\ req[u].pc = "set_led" => ENABLED (ToggleSetLedHw(u) /\ seq'[t] = seq[t])
            /\ req[u].pc = "store" => ENABLED (ToggleSetLedStore(u) /\ seq'[t] = seq[t])
            /\ req[u].pc = "loop" => ENABLED (SetAllHw(u) /\ seq'[t] = seq[t])
            /\ req[u].pc = "loop_store" => ENABLED (SetAllStore(u) /\ seq'[t] = seq[t])

C12_Witness ==
    \E t, u \in Threads :
        /\ seq[t].pc = "Sweeping" /\ seq[t].sub = "hold150"
        /\ req[u].op = "toggle" /\ req[u].pc = "store"

\* C13: a set-all request served with nothing else running ends with every
\* assigned drawer's entry and line at the value it applied, has written
\* nothing for a drawer without a line at any of its steps, and answers
\* success with that value.
C13_SetAllApplies ==
    [][\A t \in Threads :
          /\ (req'[t].op = "set_all" /\ req'[t] # req[t]) =>
                /\ \A d \in AllIds : ~Assigned(d) =>
                       GetState(led_states', d) = GetState(led_states, d)
                /\ DOMAIN gpio' = DOMAIN gpio
                /\ DOMAIN led_states' = DOMAIN led_states
          /\ (req'[t].op = "set_all" /\ req[t].pc # "done" /\ req'[t].pc = "done") =>
                /\ req'[t].result = "ok"
                /\ \A d \in AssignedIds :
                       /\ led_states'[d] = req'[t].state
                       /\ (gpio'[LED_PINS[d]] = HIGH) = req'[t].state]_vars

C13_Witness ==
    /\ req[1].op = "toggle" /\ req[1].pc = "done" /\ ~req[1].state
    /\ req[2].op = "set_all" /\ req[2].pc = "done" /\ ~req[2].state
    /\ AllOff

C15_FailureIsCaught ==
    [][\A t \in Threads :
          /\ (seq[t].pc # "Idle" /\ seq'[t].sub = "error") =>
                /\ seq'[t].pc = "Idle"
                /\ led_states' = led_states
                /\ gpio' = gpio
                /\ req' = req
          /\ seq[t].sub = "error" =>
                \A u \in Threads :
                   /\ (req[u].pc = "idle" /\ Turn(u)) =>
                         /\ \A d \in AllIds : ENABLED ToggleLed(u, d)
                         /\ \A s \in StateArgs : ENABLED SetAllLeds(u, s)
                         /\ ENABLED TestLeds(u)
                   /\ req[u].pc = "set_led" => ENABLED ToggleSetLedHw(u)
                   /\ req[u].pc = "store" => ENABLED ToggleSetLedStore(u)
                   /\ req[u].pc = "loop" => ENABLED SetAllHw(u)
                   /\ req[u].pc = "loop_store" => ENABLED SetAllStore(u)
                   /\ req[u].pc = "started" => ENABLED TestReturn(u)]_vars

C15_Witness ==
    /\ seq[1].sub = "error"
    /\ \E d \in AssignedIds : led_states[d] /\ LineOn(d)
    /\ \E d \in AssignedIds : ~led_states[d] /\ ~LineOn(d)
    /\ req[2].pc = "done" /\ req[2].result = "ok"

\* thread t serves a get-drawers request in this step
LoadStep(t) == drw[t].pc = "idle" /\ drw'[t].op = "load"
\* the set of every drawer of the cabinet with empty name, items and notes
IsDefaultSet(data) ==
    /\ DOMAIN data = AllIds
    /\ Cardinality(DOMAIN data) = NumRows * NumCols
    /\ \A d \in AllIds :
          data[d] = [id |-> d, name |-> "", items |-> <<>>, notes |-> "",
                     row |-> d[1], col |-> d[2]]

\* C16: a load that follows a successful save, with only loads in between,
\* returns exactly the saved set, whatever the file held before that save;
\* a load that finds no file returns the default set.
C16_RoundTrip ==
    [][\A t \in Threads : LoadStep(t) =>
          /\ \A u \in Threads :
                ( /\ u < t
                  /\ drw[u].op = "save" /\ drw[u].result = "ok"
                  /\ \A v \in Threads : (u < v /\ v < t) => drw[v].op = "load" )
                => drw'[t].data = drw[u].data
          /\ ~data_file.exists => IsDefaultSet(drw'[t].data)]_vars

C16_Witness ==
    /\ drw[1].op = "save" /\ drw[1].pc = "done" /\ drw[1].result = "ok"
    /\ drw[2].op = "load" /\ drw[2].pc = "done"
    /\ drw[2].data = drw[1].data
    /\ Cardinality(DOMAIN drw[2].data) = 1

\* C17: a load always answers and leaves the file as it is; when the file
\* is what a save that failed after opening it left behind, the load
\* returns the default set.
C17_LoadFallsBack ==
    [][\A t \in Threads : LoadStep(t) =>
          /\ drw'[t].pc = "done"
          /\ drw'[t].result = "ok"
          /\ data_file' = data_file
          /\ ( /\ t > 1
               /\ drw[t - 1].op = "save" /\ drw[t - 1].result = "failed"
               /\ drw[t - 1].pos >= 1 )
             => IsDefaultSet(drw'[t].data)]_vars

C17_Witness ==
    /\ drw[1].op = "save" /\ drw[1].result = "failed" /\ drw[1].pos >= 2
    /\ data_file.exists /\ Len(data_file.text) >= 1
    /\ drw[2].op = "load" /\ drw[2].pc = "done" /\ IsDefaultSet(drw[2].data)

\* the number of highlightDrawers calls so far that matched drawer d
TimesMatched(d) == Cardinality({i \in 1..Len(searches) : d \in searches[i]})
LastSearch == IF searches = <<>> THEN {} ELSE searches[Len(searches)]

CatalogLen == Cardinality(DOMAIN gpio)

Saving(u) == drw[u].op = "save" /\ drw[u].pc \in {"open", "dump", "close"}

\* C21: a get-drawers request served while one save request is under way
\* (and nothing else has touched the file since it was last saved whole)
\* returns a whole record set, the one saved before or the one being
\* saved: one of the sets clients post, and not the default set.
C21_ConcurrentLoadWhole ==
    [][\A t \in Threads : LoadStep(t) =>
          \A u \in Threads \ {t} :
             (Saving(u) /\ \A v \in Threads \ {t, u} : drw[v].pc = "idle")
             => /\ drw'[t].data \in RecordSets
                /\ ~IsDefaultSet(drw'[t].data)]_vars

\* the drawer the sweep of thread t is at
SweepAt(t) == RowMajor(LedRows)[seq[t].idx]
\* the drawer after d, a row at a time and by column within a row
Follows(d, e) ==
    \/ e[1] = d[1] /\ e[2] = d[2] + 1
    \/ e[1] = d[1] + 1 /\ e[2] = 1 /\ d[2] = NumCols
\* only the line of drawer d changes in this step, to level v
OnlyLine(d, v) ==
    gpio' = [p \in DOMAIN gpio |-> IF p = LED_PINS[d] THEN v ELSE gpio[p]]
\* only the entry of drawer d changes in this step, to state b
OnlyEntry(d, b) ==
    led_states' = [k \in DOMAIN led_states |-> IF k = d THEN b ELSE led_states[k]]

\* C22: the sweep starts at drawer 1-1; at each drawer it writes the line
\* on, stores True, holds, writes the line off, stores False, in this order
\* and touching no other drawer; it then goes to the next drawer of the row,
\* or to the first of the next row, and leaves the sweep after the last
\* drawer of the rows with LEDs.  So every assigned drawer is switched on
\* once.
C22_SweepOrder ==
    [][\A t \in Threads :
          /\ (seq[t].pc # "Sweeping" /\ seq'[t].pc = "Sweeping") =>
                /\ seq'[t].sub = "on_hw"
                /\ SweepAt(t)' = DrawerId(1, 1)
          /\ (seq[t].pc = "Sweeping" /\ seq'[t] # seq[t]) =>
                LET d == SweepAt(t) IN
                /\ seq[t].sub = "on_hw" =>
                      /\ Assigned(d) /\ OnlyLine(d, HIGH) /\ led_states' = led_states
                      /\ seq'[t] = [seq[t] EXCEPT !.sub = "on_store"]
                /\ seq[t].sub = "on_store" =>
                      /\ OnlyEntry(d, TRUE) /\ gpio' = gpio
                      /\ seq'[t] = [seq[t] EXCEPT !.sub = "hold150"]
                /\ seq[t].sub = "hold150" =>
                      /\ gpio' = gpio /\ led_states' = led_states
                      /\ seq'[t] = [seq[t] EXCEPT !.sub = "off_hw"]
                /\ seq[t].sub = "off_hw" =>
                      /\ OnlyLine(d, LOW) /\ led_states' = led_states
                      /\ seq'[t] = [seq[t] EXCEPT !.sub = "off_store"]
                /\ seq[t].sub = "off_store" =>
                      /\ OnlyEntry(d, FALSE) /\ gpio' = gpio
                      /\ seq'[t].pc = "Sweeping"
                      /\ IF d = DrawerId(LedRows, NumCols)
                         THEN seq'[t].sub = "hold"
                         ELSE seq'[t].sub = "on_hw" /\ Follows(d, SweepAt(t)')
                /\ seq[t].sub = "hold" =>
                      /\ gpio' = gpio /\ led_states' = led_states
                      /\ seq'[t].pc = "AllOn"]_vars

C22_Witness ==
    \E t \in Threads :
        /\ seq[t].pc = "Sweeping" /\ seq[t].sub = "hold150"
        /\ SweepAt(t) = DrawerId(LedRows, 1)
        /\ \A d \in AssignedIds : (led_states[d] /\ LineOn(d)) <=> d = SweepAt(t)

\* C23: the drawer of row r and column c, r a row with LEDs, has the pin at
\* index NumCols*(r-1)+(c-1) of the list (counted from 0) when the list is
\* that long; no pin is given to two drawers; and the drawers of the last
\* row have None whatever the length of the list, shorter or longer than
\* the drawers that need a pin.
C23_RowMajorAssignment ==
    /\ \A r \in 1..LedRows, c \in 1..NumCols :
          LET i == NumCols * (r - 1) + (c - 1) IN
          i < CatalogLen =>
              /\ DrawerId(r, c) \in DOMAIN LED_PINS
              /\ LED_PINS[DrawerId(r, c)] = gpio_pins[i + 1]
    /\ \A d, e \in DOMAIN LED_PINS :
          (LED_PINS[d] # None /\ LED_PINS[d] = LED_PINS[e]) => d = e
    /\ \A d \in EmptyRowIds : d \in DOMAIN LED_PINS /\ LED_PINS[d] = None
    /\ \A n \in 0..Len(gpio_pins) : \A d \in EmptyRowIds :
          setup_gpio(Catalog(n)).LED_PINS[d] = None

C23_Witness ==
    /\ CatalogLen = FullLen - 1
    /\ LED_PINS[DrawerId(LedRows, NumCols - 1)] = gpio_pins[FullLen - 1]
    /\ gpio[gpio_pins[FullLen - 1]] = HIGH

\* the drawer and the state of the set_led call thread t is inside, as a
\* handler and as a test sequence
ReqCall(t) ==
    [drawer_id |-> IF req[t].pc = "store" THEN req[t].drawer_id
                   ELSE LedPinKeys[req[t].idx],
     state |-> req[t].state]
SeqCall(t) ==
    [drawer_id |-> IF seq[t].pc = "Sweeping" THEN RowMajor(LedRows)[seq[t].idx]
                   ELSE LedPinKeys[seq[t].idx],
     state |-> IF seq[t].pc = "Sweeping" THEN seq[t].sub = "on_store"
               ELSE seq[t].pc = "AllOn"]
Level(state) == IF state THEN HIGH ELSE LOW

\* C24: a step that changes a line is the GPIO.output of a set_led call; the
\* GPIO.output of a set_led call, made by a toggle, a set-all or a test
\* sequence, writes the line of the call's drawer and nothing else; the
\* step of that thread that follows stores the call's state in the entry of
\* the same drawer and nothing else; and no entry changes in any other step.
C24_WritesThroughSetLed ==
    [][/\ gpio' # gpio =>
             \E t \in Threads : \/ t \in ReqInSetLed' \ ReqInSetLed
                                \/ t \in SeqInSetLed' \ SeqInSetLed
       /\ led_states' # led_states =>
             \E t \in Threads : \/ t \in ReqInSetLed /\ req'[t] # req[t]
                                \/ t \in SeqInSetLed /\ seq'[t] # seq[t]
       /\ \A t \in Threads :
             /\ t \in ReqInSetLed' \ ReqInSetLed =>
                   /\ Assigned(ReqCall(t).drawer_id')
                   /\ OnlyLine(ReqCall(t).drawer_id', Level(ReqCall(t).state'))
                   /\ led_states' = led_states
             /\ t \in SeqInSetLed' \ SeqInSetLed =>
                   /\ Assigned(SeqCall(t).drawer_id')
                   /\ OnlyLine(SeqCall(t).drawer_id', Level(SeqCall(t).state'))
                   /\ led_states' = led_states
             /\ (t \in ReqInSetLed /\ req'[t] # req[t]) =>
                   /\ OnlyEntry(ReqCall(t).drawer_id, ReqCall(t).state)
                   /\ gpio' = gpio
             /\ (t \in SeqInSetLed /\ seq'[t] # seq[t]) =>
                   /\ OnlyEntry(SeqCall(t).drawer_id, SeqCall(t).state)
                   /\ gpio' = gpio]_vars

C24_Witness ==
    \E t, u \in Threads :
        /\ req[t].op = "set_all" /\ req[t].pc = "loop_store" /\ req[t].state
        /\ seq[u].pc = "Sweeping" /\ seq[u].sub = "off_store"
        /\ ReqCall(t).drawer_id = SeqCall(u).drawer_id
        /\ ~LineOn(ReqCall(t).drawer_id)

\* no request has been served yet
NothingServed ==
    \A t \in Threads :
        req[t].pc = "idle" /\ seq[t] = IdleSeq /\ drw[t].pc = "idle"

\* C25: before any request is served, the pins set up as outputs are
\* exactly the pins of the drawers that have one, each of them is at the
\* off level, and led_states is False for every drawer of the cabinet.
C25_InitialState ==
    NothingServed =>
        /\ DOMAIN gpio = {LED_PINS[d] : d \in {e \in DOMAIN LED_PINS : LED_PINS[e] # None}}
        /\ \A p \in DOMAIN gpio : gpio[p] = LOW
        /\ DOMAIN led_states = AllIds
        /\ Cardinality(DOMAIN led_states) = NumRows * NumCols
        /\ \A d \in AllIds : led_states[d] = FALSE

C25_Witness ==
    /\ NothingServed
    /\ Cardinality(DOMAIN gpio) = FullLen
    /\ \A d \in SeqToSet(RowMajor(LedRows)) : gpio[LED_PINS[d]] = LOW
    /\ \A d \in AllIds : ~led_states[d]

\* the step belongs to a drawer request, to an LED request or test sequence
DrawerStep == drw' # drw \/ data_file' # data_file
LedStep == req' # req \/ seq' # seq \/ gpio' # gpio \/ led_states' # led_states

\* C26: a step of a get, save or export request changes no entry of
\* led_states, no line, and no LED request or test sequence; a step of a
\* toggle, a set-all or a test sequence changes neither the file nor a
\* drawer request; and whatever the drawer requests are doing, an LED
\* request can start and every step of an LED request or test sequence
\* under way is enabled.
C26_StoreAndLedsApart ==
    [][/\ DrawerStep => (UNCHANGED <<LED_PINS, gpio, led_states, req, seq>>)
       /\ LedStep => (UNCHANGED <<data_file, drw>>)
       /\ \A t \in Threads :
             /\ (\A u \in Threads : req[u].pc = "idle") =>
                   /\ \A d \in AllIds : ENABLED ToggleLed(t, d)
                   /\ \A s \in StateArgs : ENABLED SetAllLeds(t, s)
                   /\ ENABLED TestLeds(t)
             /\ req[t].pc = "set_led" => ENABLED ToggleSetLedHw(t)
             /\ req[t].pc = "store" => ENABLED ToggleSetLedStore(t)
             /\ req[t].pc = "loop" => ENABLED SetAllHw(t)
             /\ req[t].pc = "loop_store" => ENABLED SetAllStore(t)
             /\ req[t].pc = "started" => ENABLED TestReturn(t)
             /\ seq[t].sub \in {"hw"} => ENABLED SeqAllHw(t)
             /\ seq[t].sub = "store" => ENABLED SeqAllStore(t)
             /\ seq[t].sub = "hold" => ENABLED SeqHold(t)
             /\ seq[t].sub = "on_hw" => ENABLED SweepOnHw(t)
             /\ seq[t].sub = "on_store" => ENABLED SweepOnStore(t)
             /\ seq[t].sub = "hold150" => ENABLED SweepHold(t)
             /\ seq[t].sub = "off_hw" => ENABLED SweepOffHw(t)
             /\ seq[t].sub = "off_store" => ENABLED SweepOffStore(t)]_vars

C26_Witness ==
    \E t, u \in Threads :
        /\ drw[t].op = "save" /\ drw[t].pc = "dump" /\ drw[t].pos >= 2
        /\ seq[u].pc = "AllOffFinal" /\ seq[u].sub = "hw"
        /\ \E d \in AssignedIds : led_states[d] /\ LineOn(d)
        /\ \E d \in AssignedIds : ~led_states[d] /\ ~LineOn(d)

\* C27: a test sequence that has been started reaches its end and its
\* thread is gone, whatever toggle, set-all and test requests the other
\* threads serve meanwhile, provided the sequence thread keeps being
\* scheduled.
C27_SequenceFinishes ==
    \A t \in Threads :
        (seq[t].pc # "Idle") ~> (seq[t].pc = "Idle" /\ seq[t].sub = "finished")

C27_Witness ==
    \E t, u \in Threads :
        /\ seq[t].pc = "Idle" /\ seq[t].sub = "finished"
        /\ req[u].op = "set_all" /\ req[u].pc = "loop" /\ req[u].state

\* C28: when only test requests are served, however the steps of their
\* sequences interleave, every assigned drawer's entry is False and its
\* line off once every sequence that was started has finished.
C28_OverlappingSequencesEndOff ==
    ( /\ \A t \in Threads : req[t].op \in {"none", "test"}
      /\ Running = {}
      /\ \E t \in Threads : seq[t].sub = "finished" )
    => AllOff

C28_Witness ==
    /\ Running = {}
    /\ \E t, u \in Threads :
          /\ t # u
          /\ seq[t].sub = "finished" /\ seq[u].sub = "finished"
          /\ req[t].pc = "started" /\ req[u].pc = "started"
    /\ AllOff

\* the assigned drawers whose line is on
LinesOn == {d \in AssignedIds : LineOn(d)}

\* C29: while a test sequence that runs alone is in its sweep, at most one
\* assigned line is on; none is on when the sweep starts (before its first
\* write) and none when it ends (in the sleep that follows it).
C29_SweepOneLineOn ==
    \A t \in Threads : seq[t].pc = "Sweeping" =>
        /\ Cardinality(LinesOn) <= 1
        /\ (seq[t].sub = "on_hw" /\ seq[t].idx = 1) => LinesOn = {}
        /\ seq[t].sub = "hold" => LinesOn = {}

C29_Witness ==
    \E t \in Threads :
        /\ seq[t].pc = "Sweeping" /\ seq[t].sub = "off_hw"
        /\ seq[t].idx = LedRows * NumCols
        /\ Cardinality(LinesOn) = 1

====
